---------------------------- MODULE Spec2Model ----------------------------
(***************************************************************************)
(* Model of js/main.js of the student portfolio page: the bootstrap        *)
(* (DOMContentLoaded), the sequential fetch-and-render pipeline            *)
(* (loadAllData and the four render functions), the collapsible module     *)
(* toggle, the navigation / scroll / back-to-top listeners and the counter *)
(* animation.                                                              *)
(*                                                                         *)
(* JavaScript objects are records; a property that is absent from an       *)
(* object is a field that is absent from the record, and {} is the empty   *)
(* function <<>>.  Arrays are sequences.  Markup produced by the template  *)
(* strings is a sequence of card records that keep the interpolated        *)
(* values, the generated ids and the inline styles.                        *)
(***************************************************************************)
EXTENDS Integers, Sequences, FiniteSets, TLC

VARIABLES
    served,         \* per source: the answers the server may give for its path
    resp,           \* the Response object of the fetch that resolved last
    pc,             \* position of the DOMContentLoaded handler
    cur,            \* index in Order of the source loadAllData is working on
    fetch,          \* per source: state of its fetch() promise
    slot,           \* educationModules / thesisData / courseworks / practicalWorks
    container,      \* per source: is the container element on the page, and its content
    errors,         \* number of console.error calls made by loadAllData's catch
    page,           \* which of navbar, navToggle, navMenu, backToTop the page has
    sections,       \* the section[id] elements in document order, with geometry
    links,          \* ids of the sections that have a .nav-link
    navToggleActive, \* navToggle carries class 'active'
    navMenuActive,  \* navMenu carries class 'active'
    scrollY,        \* window.scrollY seen by the last scroll event
    navbarScrolled, \* navbar carries class 'scrolled'
    backVisible,    \* backToTop carries class 'visible'
    active,         \* the .nav-link elements that carry class 'active'
    counter         \* the .stat-number element: text, target, observer, timer

vars == <<served, resp, pc, cur, fetch, slot, container, errors, page, sections, links,
          navToggleActive, navMenuActive, scrollY, navbarScrolled, backVisible,
          active, counter>>

loadVars == <<resp, pc, cur, fetch, slot, container, errors>>
navVars == <<navToggleActive, navMenuActive, scrollY, navbarScrolled, backVisible, active>>
staticVars == <<served, page, sections, links>>

-----------------------------------------------------------------------------
(* Bounds of the model *)

MaxLen == 2         \* longest document (number of entries) that is enumerated
MaxAbsent == 1      \* at most this many of the four containers are missing from the page
MaxIndex == MaxLen   \* toggleModule is called with indices 0..MaxIndex, one past the last card
MaxTop == 3         \* a section's band starts at an offset in 0..MaxTop
MaxHeight == 2      \* a section's height is in 1..MaxHeight

-----------------------------------------------------------------------------
(* The four sources, in the order loadAllData loads them *)

Order == <<"educationModules", "thesisContent", "courseworksList", "practicalsList">>
Sources == {Order[k] : k \in 1..Len(Order)}
IndexOf(s) == CHOOSE k \in 1..Len(Order) : Order[k] = s

SeqsUpTo(S, n) == UNION {[1..k -> S] : k \in 0..n}

Has(obj, f) == f \in DOMAIN obj
\* `${obj.f}`: an absent property is interpolated as the text "undefined"
Str(obj, f) == IF Has(obj, f) THEN obj[f] ELSE "undefined"
\* truthiness of a string property: absent and "" are falsy
Truthy(obj, f) == Has(obj, f) /\ obj[f] # ""

-----------------------------------------------------------------------------
(* Documents *)

Lab1 == [title |-> "Lab 1", link |-> "labs/1"]
Lab2 == [title |-> "Lab 2", link |-> "labs/2"]
Sem1 == [title |-> "Semester 1", labs |-> <<Lab1, Lab2>>]
Sem2 == [title |-> "Semester 2", labs |-> <<Lab2>>]
SemNoLabs == [title |-> "Semester 3"]
ModA == [title |-> "Module A", semesters |-> <<Sem1, Sem2>>]
ModB == [title |-> "Module B", semesters |-> <<Sem2>>]
ModC == [title |-> "Module C", semesters |-> <<>>]
ModNoSemesters == [title |-> "Module D"]
ModNoLabs == [title |-> "Module E", semesters |-> <<Sem1, SemNoLabs>>]
ModuleEntries == {ModA, ModB, ModC, ModNoSemesters, ModNoLabs}

ThesisFull == [title |-> "Thesis", topic |-> "Topic", description |-> "Text",
               keyFeatures |-> <<"Intro", "Design">>, link |-> "thesis.pdf"]
ThesisNoFeatures == [title |-> "Thesis", topic |-> "Topic"]
ThesisNoTitle == [topic |-> "Topic", keyFeatures |-> <<"Intro">>]
ThesisEmptyTitle == [title |-> "", keyFeatures |-> <<"Intro">>]
ThesisDocs == {<<>>, ThesisFull, ThesisNoFeatures, ThesisNoTitle, ThesisEmptyTitle}

CwA == [title |-> "Coursework A", semester |-> "3", description |-> "a",
        technologies |-> <<"C", "SQL">>, link |-> "cw/a"]
CwB == [title |-> "Coursework B", semester |-> "5", description |-> "b",
        technologies |-> <<>>, link |-> "cw/b"]
CwNoTech == [title |-> "Coursework C", semester |-> "6"]
CourseworkEntries == {CwA, CwB, CwNoTech}

PwA == [title |-> "Practice A", semester |-> "2", description |-> "a",
        items |-> <<"Task 1", "Task 2">>, link |-> "pw/a"]
PwB == [title |-> "Practice B", semester |-> "4", description |-> "b",
        items |-> <<"Task 3">>, link |-> "pw/b"]
PwNoItems == [title |-> "Practice C", link |-> "pw/c"]
PracticalEntries == {PwA, PwB, PwNoItems}

\* every document of a source that the model enumerates
AllDocs(s) ==
    CASE s = "educationModules" -> SeqsUpTo(ModuleEntries, MaxLen)
      [] s = "thesisContent" -> ThesisDocs
      [] s = "courseworksList" -> SeqsUpTo(CourseworkEntries, MaxLen)
      [] s = "practicalsList" -> SeqsUpTo(PracticalEntries, MaxLen)

\* one document of each shape: empty, well-formed, and one whose rendering throws
ShapeDocs(s) ==
    CASE s = "educationModules" -> {<<>>, <<ModA, ModB>>, <<ModA, ModNoSemesters>>}
      [] s = "thesisContent" -> {<<>>, ThesisFull, ThesisNoFeatures}
      [] s = "courseworksList" -> {<<>>, <<CwA, CwB>>, <<CwNoTech>>}
      [] s = "practicalsList" -> {<<>>, <<PwA>>, <<PwA, PwNoItems>>}

\* what the server answers for one path: a network failure (fetch rejects), a
\* non-ok status, an ok response whose body is not JSON, or an ok response with a document
NetError == [status |-> "neterror"]
NotOk == [status |-> "notok"]
BadJson == [status |-> "ok", valid |-> FALSE]
Good(d) == [status |-> "ok", valid |-> TRUE, doc |-> d]
NoResponse == [status |-> "none"]
Answers(docs) == {NetError, NotOk, BadJson} \cup {Good(d) : d \in docs}

-----------------------------------------------------------------------------
(* Module-level slots and containers before the load *)

\* lines 2-5: let educationModules = []; thesisData = {}; courseworks = []; practicalWorks = []
EmptyDefault(s) == <<>>

Placeholder == <<[placeholder |-> TRUE]>>
PreLoad(present) == [present |-> present, html |-> IF present THEN Placeholder ELSE <<>>]

-----------------------------------------------------------------------------
(* Render functions *)

LabItem(lab) == [href |-> Str(lab, "link"), title |-> Str(lab, "title")]
SemesterSection(sem) ==
    [title |-> Str(sem, "title"),
     labs |-> [j \in 1..Len(sem.labs) |-> LabItem(sem.labs[j])]]
\* a template that numbers the ids from one while onclick passes the index
ModuleCardOneBased(module, index) ==
    [title |-> Str(module, "title"),
     aosDelay |-> index * 100,
     onclick |-> index,
     iconId |-> index + 1,
     contentId |-> index + 1,
     display |-> "none",
     transform |-> "",
     semesters |-> [j \in 1..Len(module.semesters) |-> SemesterSection(module.semesters[j])]]

\* index is the zero-based index the template interpolates
ModuleCard(module, index) ==
    [title |-> Str(module, "title"),
     aosDelay |-> index * 100,
     onclick |-> index,
     iconId |-> index,
     contentId |-> index,
     display |-> "none",
     transform |-> "",
     semesters |-> [j \in 1..Len(module.semesters) |-> SemesterSection(module.semesters[j])]]

\* module.semesters.map / semester.labs.map throw a TypeError on an absent array
ModuleThrows(module) ==
    \/ ~Has(module, "semesters")
    \/ \E j \in 1..Len(module.semesters) : ~Has(module.semesters[j], "labs")

ThesisCard(t) ==
    [title |-> Str(t, "title"), topic |-> Str(t, "topic"),
     description |-> Str(t, "description"),
     features |-> t.keyFeatures, href |-> Str(t, "link")]

WorkCard(work, index, nested) ==
    [title |-> Str(work, "title"), semester |-> Str(work, "semester"),
     description |-> Str(work, "description"),
     aosDelay |-> index * 100,
     tags |-> work[nested], href |-> Str(work, "link")]

\* the array property a work card iterates over
Nested(s) == IF s = "courseworksList" THEN "technologies" ELSE "items"

\* a render function whose guard is only `if (!container) return`
IsEmptyUnchecked(s, data) == FALSE

\* the `!data.length` / `!thesisData.title` half of each render function's guard
IsEmpty(s, data) ==
    IF s = "thesisContent" THEN ~Truthy(data, "title") ELSE Len(data) = 0

\* does building the markup throw before innerHTML is assigned
RenderThrows(s, data) ==
    CASE s = "educationModules" -> \E k \in 1..Len(data) : ModuleThrows(data[k])
      [] s = "thesisContent" -> ~Has(data, "keyFeatures")
      [] OTHER -> \E k \in 1..Len(data) : ~Has(data[k], Nested(s))

\* the markup assigned to container.innerHTML
Markup(s, data) ==
    CASE s = "educationModules" -> [k \in 1..Len(data) |-> ModuleCard(data[k], k - 1)]
      [] s = "thesisContent" -> <<ThesisCard(data)>>
      [] OTHER -> [k \in 1..Len(data) |-> WorkCard(data[k], k - 1, Nested(s))]

\* a render function run on the current slot value: "skip" (guard returned),
\* "throw" (exception before the assignment) or "write" with the new content
Render(s, data, cont) ==
    IF ~cont.present \/ IsEmpty(s, data) THEN [kind |-> "skip", cont |-> cont]
    ELSE IF RenderThrows(s, data) THEN [kind |-> "throw", cont |-> cont]
    ELSE [kind |-> "write", cont |-> [cont EXCEPT !.html = Markup(s, data)]]

-----------------------------------------------------------------------------
(* loadAllData *)

\* the statement after source k's block: the next fetch is issued, or the function returns
Advance(k, f) ==
    IF k < Len(Order)
    THEN [pc |-> "fetch", cur |-> k + 1, fetch |-> [f EXCEPT ![Order[k + 1]] = "pending"]]
    ELSE [pc |-> "loaded", cur |-> k, fetch |-> f]

\* a loadAllData without the try/catch: the exception rejects its promise and the
\* DOMContentLoaded handler ends at `await loadAllData()`
Uncaught(k, f) == [pc |-> "failed", cur |-> k, fetch |-> f]

\* catch (error) { console.error(...) }: the function returns, later sources are not loaded
Caught(k, f) == [pc |-> "loaded", cur |-> k, fetch |-> f]

\* the DOMContentLoaded handler runs up to its first suspension: loadAllData has
\* issued the first fetch.  AOS.init, particlesJS and the preloader timer act on
\* the effect libraries and the preloader element only and are left out
DOMContentLoaded ==
    /\ pc = "start"
    /\ pc' = "fetch"
    /\ cur' = 1
    /\ fetch' = [fetch EXCEPT ![Order[1]] = "pending"]
    /\ UNCHANGED <<resp, slot, container, errors, staticVars, navVars, counter>>

\* the pending fetch settles with answer a; the continuation runs to the next await
FetchSettled(a) ==
    LET s == Order[cur]
        f == [fetch EXCEPT ![s] = IF a.status = "neterror" THEN "rejected" ELSE a.status]
        nx == CASE a.status = "neterror" -> Caught(cur, f)
                [] a.status = "notok" -> Advance(cur, f)
                [] OTHER -> [pc |-> "json", cur |-> cur, fetch |-> f]
    IN /\ pc' = nx.pc
       /\ cur' = nx.cur
       /\ fetch' = nx.fetch
       /\ resp' = IF a.status = "ok" THEN a ELSE NoResponse
       /\ errors' = IF a.status = "neterror" THEN errors + 1 ELSE errors

FetchSettle ==
    /\ pc = "fetch"
    /\ \E a \in served[Order[cur]] : FetchSettled(a)
    /\ UNCHANGED <<slot, container, staticVars, navVars, counter>>

\* response.json() settles; on success the slot is assigned and the render function runs
JsonSettle ==
    /\ pc = "json"
    /\ LET s == Order[cur]
           ok == resp.valid
           data == IF ok THEN resp.doc ELSE slot[s]
           r == Render(s, data, container[s])
           threw == ~ok \/ r.kind = "throw"
           nx == IF threw THEN Caught(cur, fetch) ELSE Advance(cur, fetch)
       IN /\ slot' = [slot EXCEPT ![s] = data]
          /\ container' = IF ok THEN [container EXCEPT ![s] = r.cont] ELSE container
          /\ errors' = IF threw THEN errors + 1 ELSE errors
          /\ pc' = nx.pc
          /\ cur' = nx.cur
          /\ fetch' = nx.fetch
    /\ resp' = NoResponse
    /\ UNCHANGED <<staticVars, navVars, counter>>

-----------------------------------------------------------------------------
(* toggleModule *)

\* document.getElementById: the first element of the page that carries the id
ElementsWith(html, idField, i) ==
    {k \in 1..Len(html) : Has(html[k], idField) /\ html[k][idField] = i}
Min(S) == CHOOSE k \in S : \A j \in S : k <= j

\* a toggle that forgets to turn the indicator back when it hides the content
ToggledHtmlKeepsRotation(html, i) ==
    LET cs == ElementsWith(html, "contentId", i)
        is == ElementsWith(html, "iconId", i)
    IN IF cs = {} \/ is = {} THEN html
       ELSE LET c == Min(cs)
                ic == Min(is)
                show == html[c].display = "none"
                h1 == [html EXCEPT ![c].display = IF show THEN "block" ELSE "none"]
            IN [h1 EXCEPT ![ic].transform =
                   IF show THEN "rotate(180deg)" ELSE html[ic].transform]

\* an accordion: expanding one entry collapses every other entry
ToggledHtmlAccordion(html, i) ==
    LET cs == ElementsWith(html, "contentId", i)
        is == ElementsWith(html, "iconId", i)
    IN IF cs = {} \/ is = {} THEN html
       ELSE LET c == Min(cs)
                show == html[c].display = "none"
            IN [k \in 1..Len(html) |->
                   IF k = c
                   THEN [html[k] EXCEPT
                            !.display = IF show THEN "block" ELSE "none",
                            !.transform = IF show THEN "rotate(180deg)" ELSE "rotate(0deg)"]
                   ELSE IF show /\ Has(html[k], "contentId")
                   THEN [html[k] EXCEPT !.display = "none", !.transform = "rotate(0deg)"]
                   ELSE html[k]]

ToggledHtml(html, i) ==
    LET cs == ElementsWith(html, "contentId", i)
        is == ElementsWith(html, "iconId", i)
    IN IF cs = {} \/ is = {} THEN html
       ELSE LET c == Min(cs)
                ic == Min(is)
                show == html[c].display = "none"
                h1 == [html EXCEPT ![c].display = IF show THEN "block" ELSE "none"]
            IN [h1 EXCEPT ![ic].transform =
                   IF show THEN "rotate(180deg)" ELSE "rotate(0deg)"]

\* toggleModule is a global function: the inline onclick of a rendered header calls
\* it with that card's index, and nothing stops a call with any other index
ToggleModule(i) ==
    /\ container' = [container EXCEPT
           !["educationModules"].html = ToggledHtml(container["educationModules"].html, i)]
    /\ UNCHANGED <<resp, pc, cur, fetch, slot, errors, staticVars, navVars, counter>>

-----------------------------------------------------------------------------
(* Interaction controller *)

ScrolledThreshold == 100    \* window.scrollY > 100
BackToTopThreshold == 500   \* window.scrollY > 500
NavOffset == 100            \* section.offsetTop - 100
Speed == 200                \* const speed = 200

wired == pc = "wired"

\* the rest of the DOMContentLoaded handler, run when loadAllData's promise has
\* resolved: initNavigation, initScrollAnimations, initCounters, initBackToTop.
\* The listeners it registers are the actions below, enabled once pc = "wired";
\* initCounters puts every .stat-number element under observation
InitController ==
    /\ pc = "loaded"
    /\ pc' = "wired"
    /\ counter' = IF counter.present THEN [counter EXCEPT !.observing = TRUE] ELSE counter
    /\ UNCHANGED <<resp, cur, fetch, slot, container, errors, staticVars, navVars>>

\* click on navToggle; the listener exists only if both elements were found
NavToggleClick ==
    /\ wired
    /\ page.navToggle /\ page.navMenu
    /\ navToggleActive' = ~navToggleActive
    /\ navMenuActive' = ~navMenuActive
    /\ UNCHANGED <<loadVars, staticVars, scrollY, navbarScrolled, backVisible, active, counter>>

\* a link listener that toggles the class instead of removing it
NavLinkClickToggles ==
    /\ wired
    /\ links # {}
    /\ navToggleActive' = IF page.navToggle THEN ~navToggleActive ELSE navToggleActive
    /\ navMenuActive' = IF page.navToggle /\ page.navMenu THEN ~navMenuActive ELSE navMenuActive
    /\ UNCHANGED <<loadVars, staticVars, scrollY, navbarScrolled, backVisible, active, counter>>

\* click on a .nav-link: both removals run, unless the first element is null
\* (TypeError before anything changes) or the second is (TypeError after the first)
NavLinkClick ==
    /\ wired
    /\ links # {}
    /\ navToggleActive' = IF page.navToggle THEN FALSE ELSE navToggleActive
    /\ navMenuActive' = IF page.navToggle /\ page.navMenu THEN FALSE ELSE navMenuActive
    /\ UNCHANGED <<loadVars, staticVars, scrollY, navbarScrolled, backVisible, active, counter>>

\* a test that takes the band closed at its top and open at its bottom
InBandClosedOpen(section, y) ==
    LET sectionHeight == section.offsetHeight
        sectionTop == section.offsetTop - NavOffset
    IN y >= sectionTop /\ y < sectionTop + sectionHeight

\* the test of updateActiveNavLink for one section
InBand(section, y) ==
    LET sectionHeight == section.offsetHeight
        sectionTop == section.offsetTop - NavOffset
    IN y > sectionTop /\ y <= sectionTop + sectionHeight

\* updateActiveNavLink: sections.forEach in document order, starting from act;
\* a hit removes 'active' from every link and adds it to the section's link, if any
RECURSIVE ActiveAfter(_, _, _, _, _)
ActiveAfter(secs, lks, y, k, act) ==
    IF k > Len(secs) THEN act
    ELSE LET next == IF ~InBand(secs[k], y) THEN act
                     ELSE IF secs[k].id \in lks THEN {secs[k].id} ELSE {}
         IN ActiveAfter(secs, lks, y, k + 1, next)

UpdateActiveNavLink(y, act) == ActiveAfter(sections, links, y, 1, act)

\* a scroll event at offset y: the listener of initNavigation (which throws at
\* navbar.classList when the page has no navbar, before updateActiveNavLink),
\* then the listener of initBackToTop (registered only if the button exists)
ScrollHandlers(y) ==
    /\ scrollY' = y
    /\ navbarScrolled' = IF page.navbar THEN y > ScrolledThreshold ELSE navbarScrolled
    /\ active' = IF page.navbar THEN UpdateActiveNavLink(y, active) ELSE active
    /\ backVisible' = IF page.backToTop THEN y > BackToTopThreshold ELSE backVisible

OnScroll(y) ==
    /\ wired
    /\ ScrollHandlers(y)
    /\ UNCHANGED <<loadVars, staticVars, navToggleActive, navMenuActive, counter>>

\* click on backToTop: window.scrollTo({top: 0}); the scroll events of the smooth
\* scroll are OnScroll steps, this step is the one that arrives at the top
BackToTopClick ==
    /\ wired
    /\ page.backToTop
    /\ ScrollHandlers(0)
    /\ UNCHANGED <<loadVars, staticVars, navToggleActive, navMenuActive, counter>>

-----------------------------------------------------------------------------
(* Counter animation *)

\* Math.ceil(count + target / speed) for integers count, target >= 0
CeilStep(count, target) == (count * Speed + target + Speed - 1) \div Speed

\* updateCount: one step of the animation, re-armed by setTimeout(updateCount, 1)
UpdateCount(c) ==
    IF c.text < c.target
    THEN [c EXCEPT !.text = CeilStep(c.text, c.target), !.timer = TRUE]
    ELSE [c EXCEPT !.text = c.target, !.timer = FALSE]

\* the IntersectionObserver callback of initCounters for the counter's entry
IntersectionCallback(isIntersecting) ==
    /\ wired
    /\ counter.present /\ counter.observing
    /\ counter' = IF isIntersecting
                  THEN [UpdateCount(counter) EXCEPT !.observing = FALSE, !.inView = TRUE]
                  ELSE [counter EXCEPT !.inView = FALSE]
    /\ UNCHANGED <<loadVars, staticVars, navVars>>

\* the element enters or leaves view after observation has ended: no callback runs
ViewChange ==
    /\ wired
    /\ counter.present /\ ~counter.observing
    /\ counter' = [counter EXCEPT !.inView = ~counter.inView]
    /\ UNCHANGED <<loadVars, staticVars, navVars>>

\* the timer set by setTimeout(updateCount, 1) fires
TimerFire ==
    /\ counter.timer
    /\ counter' = UpdateCount(counter)
    /\ UNCHANGED <<loadVars, staticVars, navVars>>

NoCounter == [present |-> FALSE, text |-> 0, target |-> 0, observing |-> FALSE,
              timer |-> FALSE, inView |-> FALSE]
CounterAt(target) == [present |-> TRUE, text |-> 0, target |-> target,
                      observing |-> FALSE, timer |-> FALSE, inView |-> FALSE]

-----------------------------------------------------------------------------
(* Initial states *)

FullPage == [navbar |-> TRUE, navToggle |-> TRUE, navMenu |-> TRUE, backToTop |-> TRUE]
\* pages that miss at most one of the four elements
Pages == {FullPage} \cup {[FullPage EXCEPT ![e] = FALSE] : e \in DOMAIN FullPage}

HomeAbout == <<[id |-> "home", offsetTop |-> 0, offsetHeight |-> 300],
               [id |-> "about", offsetTop |-> 300, offsetHeight |-> 300]>>
SectionIds(secs) == {secs[k].id : k \in 1..Len(secs)}

\* the state of the script before DOMContentLoaded
InitProgram ==
    /\ pc = "start"
    /\ cur = 1
    /\ resp = NoResponse
    /\ fetch = [s \in Sources |-> "unissued"]
    /\ slot = [s \in Sources |-> EmptyDefault(s)]
    /\ errors = 0
    /\ navToggleActive = FALSE
    /\ navMenuActive = FALSE
    /\ scrollY = 0
    /\ navbarScrolled = FALSE
    /\ backVisible = FALSE

\* containers of which at most n are missing
Containers(n) ==
    {[s \in Sources |-> PreLoad(s \notin absent)] :
        absent \in {a \in SUBSET Sources : Cardinality(a) <= n}}

Init ==
    /\ InitProgram
    /\ served = [s \in Sources |-> Answers(ShapeDocs(s))]
    /\ container \in Containers(0)
    /\ page \in Pages
    /\ sections = HomeAbout
    /\ links = SectionIds(sections)
    /\ active = {}
    /\ counter = NoCounter

ScrollOffsets == {0, 200, 201, 500, 501}

Next ==
    \/ DOMContentLoaded
    \/ FetchSettle
    \/ JsonSettle
    \/ InitController
    \/ \E i \in 0..MaxIndex : ToggleModule(i)
    \/ NavToggleClick
    \/ NavLinkClick
    \/ \E y \in ScrollOffsets : OnScroll(y)
    \/ BackToTopClick

Spec == Init /\ [][Next]_vars

-----------------------------------------------------------------------------
(* The loader against every combination of answers: the server's answer for each
   path is fixed beforehand, and up to MaxAbsent containers are missing *)

FixedAnswers ==
    {[s \in Sources |-> {a[IndexOf(s)]}] :
        a \in Answers(ShapeDocs(Order[1])) \X Answers(ShapeDocs(Order[2]))
               \X Answers(ShapeDocs(Order[3])) \X Answers(ShapeDocs(Order[4]))}

InitLoad ==
    /\ InitProgram
    /\ served \in FixedAnswers
    /\ container \in Containers(MaxAbsent)
    /\ page = FullPage
    /\ sections = HomeAbout
    /\ links = SectionIds(sections)
    /\ active = {}
    /\ counter = NoCounter

NextLoad ==
    \/ DOMContentLoaded
    \/ FetchSettle
    \/ JsonSettle
    \/ InitController
    \/ \E i \in 0..MaxIndex : ToggleModule(i)

LoadSpec == InitLoad /\ [][NextLoad]_vars

\* fairness of the loader: an issued fetch settles, a body read settles, and the
\* continuation of `await loadAllData()` runs
LiveSpec == Spec /\ WF_vars(FetchSettle) /\ WF_vars(JsonSettle) /\ WF_vars(InitController)

-----------------------------------------------------------------------------
(* The render functions against every document up to MaxLen entries: one source
   answers with such a document, the other three answer with a non-ok status *)

InitRender ==
    /\ InitProgram
    /\ \E s \in Sources : \E d \in AllDocs(s) :
           served = [t \in Sources |-> IF t = s THEN {Good(d)} ELSE {NotOk}]
    /\ container = [s \in Sources |-> PreLoad(TRUE)]
    /\ page = FullPage
    /\ sections = HomeAbout
    /\ links = SectionIds(sections)
    /\ active = {}
    /\ counter = NoCounter

RenderSpec == InitRender /\ [][NextLoad]_vars

-----------------------------------------------------------------------------
(* The scroll listeners against every layout of two sections *)

Layouts ==
    {<<[id |-> "home", offsetTop |-> NavOffset + t1, offsetHeight |-> h1],
       [id |-> "about", offsetTop |-> NavOffset + t2, offsetHeight |-> h2]>> :
        t1 \in 0..MaxTop, h1 \in 1..MaxHeight, t2 \in 0..MaxTop, h2 \in 1..MaxHeight}

LayoutOffsets ==
    (0..(MaxTop + MaxHeight + 1)) \cup {ScrolledThreshold + 1, BackToTopThreshold + 1}

InitNav ==
    /\ InitProgram
    /\ served = [s \in Sources |-> {NetError}]
    /\ container = [s \in Sources |-> PreLoad(TRUE)]
    /\ page \in Pages
    /\ sections \in Layouts
    /\ links \in SUBSET SectionIds(sections)
    /\ active \in SUBSET links
    /\ counter = NoCounter

NextNav ==
    \/ DOMContentLoaded
    \/ FetchSettle
    \/ InitController
    \/ \E y \in LayoutOffsets : OnScroll(y)
    \/ BackToTopClick

NavSpec == InitNav /\ [][NextNav]_vars

-----------------------------------------------------------------------------
(* The counter animation against several targets *)

Targets == {1, 80, 200, 201, 500}

InitCounter ==
    /\ InitProgram
    /\ served = [s \in Sources |-> {NetError, NotOk}]
    /\ container = [s \in Sources |-> PreLoad(TRUE)]
    /\ page = FullPage
    /\ sections = HomeAbout
    /\ links = SectionIds(sections)
    /\ active = {}
    /\ \E target \in Targets : counter = CounterAt(target)

NextCounter ==
    \/ DOMContentLoaded
    \/ FetchSettle
    \/ InitController
    \/ \E b \in BOOLEAN : IntersectionCallback(b)
    \/ ViewChange
    \/ TimerFire

\* a timer that was set fires
CounterSpec == InitCounter /\ [][NextCounter]_vars /\ WF_vars(TimerFire)

-----------------------------------------------------------------------------
(* Vocabulary of the properties *)

Loaded == pc \in {"loaded", "wired"}
\* the answer of a source whose answer is fixed (LoadSpec, RenderSpec)
Answer(s) == CHOOSE a \in served[s] : TRUE
Parses(s) == Answer(s).status = "ok" /\ Answer(s).valid
\* the parsed data is non-empty: a non-zero length, or a set title for the thesis
NonEmptyData(s, d) ==
    IF s = "thesisContent" THEN "title" \in DOMAIN d /\ d.title # "" ELSE Len(d) > 0
\* every array the templates iterate over is there
WellFormed(s, d) ==
    CASE s = "educationModules" ->
             \A k \in 1..Len(d) :
                 /\ "semesters" \in DOMAIN d[k]
                 /\ \A j \in 1..Len(d[k].semesters) : "labs" \in DOMAIN d[k].semesters[j]
      [] s = "thesisContent" -> "keyFeatures" \in DOMAIN d
      [] s = "courseworksList" -> \A k \in 1..Len(d) : "technologies" \in DOMAIN d[k]
      [] s = "practicalsList" -> \A k \in 1..Len(d) : "items" \in DOMAIN d[k]
\* the load of source s fails: its fetch rejects, its body does not parse, or its
\* render function throws
LoadFails(s) ==
    \/ Answer(s).status = "neterror"
    \/ Answer(s).status = "ok" /\ ~Answer(s).valid
    \/ /\ Parses(s) /\ container[s].present
       /\ NonEmptyData(s, Answer(s).doc) /\ ~WellFormed(s, Answer(s).doc)
\* the response of s is ok and its document is well-formed and non-empty
GoodSource(s) ==
    /\ Parses(s)
    /\ NonEmptyData(s, Answer(s).doc) /\ WellFormed(s, Answer(s).doc)
Untouched(s) == container[s] = PreLoad(container[s].present)

ModuleHtml == container["educationModules"].html
Cards(h) == {k \in 1..Len(h) : "contentId" \in DOMAIN h[k]}
\* the rotation of the indicator in degrees; no inline transform is no rotation
Rotation(card) == IF card.transform = "rotate(180deg)" THEN 180 ELSE 0

-----------------------------------------------------------------------------
(* Properties of the loader, under LoadSpec *)

\* C1: whichever source's load fails and however it fails, each of the other
\* sources whose response is ok and whose document is well-formed and non-empty is
\* stored in its slot and rendered into its container when loadAllData completes.
C1_FailureIsolation ==
    Loaded =>
        \A s \in Sources :
            (GoodSource(s) /\ container[s].present
                /\ \E t \in Sources \ {s} : LoadFails(t))
            => (slot[s] = Answer(s).doc /\ ~Untouched(s))

\* C2: a container's content differs from its pre-load content only if the
\* response was ok, the body parsed and the parsed data is non-empty; with a
\* non-ok response, a failed fetch, an empty document or an absent container the
\* content is the pre-load content, and a slot for which nothing was parsed
\* keeps its empty default.
C2_NoOp ==
    \A s \in Sources :
        /\ ~Untouched(s) =>
              /\ fetch[s] = "ok" /\ Parses(s)
              /\ slot[s] = Answer(s).doc
              /\ NonEmptyData(s, slot[s])
              /\ container[s].present
        /\ (\/ Answer(s).status \in {"notok", "neterror"}
            \/ Parses(s) /\ ~NonEmptyData(s, Answer(s).doc)
            \/ ~container[s].present) => Untouched(s)
        /\ ~Parses(s) => slot[s] = EmptyDefault(s)

C2_Witness ==
    /\ pc = "wired"
    /\ Parses("courseworksList") /\ Answer("courseworksList").doc = <<>>
    /\ fetch["courseworksList"] = "ok"
    /\ Untouched("courseworksList")
    /\ ~container["thesisContent"].present /\ Parses("thesisContent")
    /\ slot["thesisContent"] = ThesisFull
    /\ ~Untouched("educationModules")

\* C9: a source is rendered only after its own fetch has resolved and its body
\* has parsed, and it waits for no other source: while the fetch of one source is
\* pending, no other source is held back with its own fetch not yet issued.
C9_RenderIndependence ==
    /\ \A a \in Sources : ~Untouched(a) => (fetch[a] = "ok" /\ slot[a] = Answer(a).doc)
    /\ \A a \in Sources : \A b \in Sources \ {a} :
           fetch[b] = "pending" => fetch[a] # "unissued"

-----------------------------------------------------------------------------
(* Properties of the rendered markup, under RenderSpec *)

C3_CardsFollowDocument(s) ==
    LET d == slot[s]
        h == container[s].html
    IN (Len(d) > 0 /\ WellFormed(s, d)) =>
          /\ Len(h) = Len(d)
          /\ \A k \in 1..Len(d) :
                /\ h[k].title = d[k].title
                /\ s = "courseworksList" => h[k].tags = d[k].technologies
                /\ s = "practicalsList" => h[k].tags = d[k].items
                /\ s = "educationModules" =>
                      /\ h[k].contentId = k - 1 /\ h[k].iconId = k - 1
                      /\ h[k].onclick = k - 1
                      /\ Len(h[k].semesters) = Len(d[k].semesters)
                      /\ \A j \in 1..Len(d[k].semesters) :
                            LET hs == h[k].semesters[j]
                                ds == d[k].semesters[j]
                            IN /\ hs.title = ds.title
                               /\ Len(hs.labs) = Len(ds.labs)
                               /\ \A l \in 1..Len(ds.labs) :
                                     /\ hs.labs[l].title = ds.labs[l].title
                                     /\ hs.labs[l].href = ds.labs[l].link

C3_ToggleAddresses(i) ==
    LET h == ModuleHtml
        h2 == ModuleHtml'
    IN ToggleModule(i) =>
          /\ Len(h2) = Len(h)
          /\ \A k \in 1..Len(h) : (k # i + 1) => h2[k] = h[k]
          /\ (i + 1 \in Cards(h)) => h2[i + 1] # h[i + 1]
          /\ (i + 1 \notin Cards(h)) => h2 = h

\* C3: rendering a well-formed list of n entries puts n cards into the container,
\* the k-th built from the k-th entry with nested lists in array order; module card
\* k carries the ids module-content-k and module-icon-k, so toggleModule(k)
\* changes the k-th card only and toggleModule(i) with i outside 0..n-1 changes nothing.
C3_LengthAndOrder ==
    /\ [](\A s \in Sources \ {"thesisContent"} : C3_CardsFollowDocument(s))
    /\ [][\A i \in 0..MaxIndex : C3_ToggleAddresses(i)]_vars

C3_Witness ==
    /\ slot["educationModules"] = <<ModA, ModB>>
    /\ Len(ModuleHtml) = 2
    /\ ModuleHtml[1].title = "Module A" /\ ModuleHtml[1].display = "none"
    /\ ModuleHtml[2].title = "Module B" /\ ModuleHtml[2].display = "block"

-----------------------------------------------------------------------------
(* Properties of the interaction controller, under Spec *)

C4_OneCall(i) ==
    LET h == ModuleHtml
        h2 == ModuleHtml'
    IN \A k \in Cards(h) :
          (h[k].contentId = i /\ ToggleModule(i)) =>
              /\ h2[k].display \in {"none", "block"}
              /\ h2[k].display # h[k].display
              /\ Rotation(h2[k]) = IF h2[k].display = "block" THEN 180 ELSE 0

C4_TwoCalls ==
    \A k \in Cards(ModuleHtml) :
        LET i == ModuleHtml[k].contentId
            hh == ToggledHtml(ToggledHtml(ModuleHtml, i), i)
        IN /\ hh[k].display = ModuleHtml[k].display
           /\ Rotation(hh[k]) = Rotation(ModuleHtml[k])

\* C4: from every reachable state of a rendered module entry, two calls of
\* toggleModule(i) in a row restore its visibility and its indicator's rotation;
\* one call flips the visibility and leaves the rotation at 180 degrees exactly
\* when the content has become visible.
C4_ToggleInvolution ==
    /\ []C4_TwoCalls
    /\ [][\A i \in 0..MaxIndex : C4_OneCall(i)]_vars

C4_Witness ==
    \E k \in Cards(ModuleHtml) :
        /\ ModuleHtml[k].display = "none"
        /\ ModuleHtml[k].transform = "rotate(0deg)"

C5_Step ==
    LET h == ModuleHtml
        h2 == ModuleHtml'
    IN /\ (Cards(h) = {} /\ Cards(h2) # {}) =>
              \A k \in Cards(h2) : h2[k].display = "none" /\ h2[k].transform = ""
       /\ \A k \in Cards(h) :
              /\ k \in Cards(h2)
              /\ (h2[k].display # h[k].display \/ h2[k].transform # h[k].transform)
                    => ToggleModule(h[k].contentId)
              /\ \A i \in 0..MaxIndex :
                    (i # h[k].contentId /\ ToggleModule(i)) => h2[k] = h[k]

\* C5: every module entry is collapsed right after rendering; afterwards entry j
\* changes only by toggleModule(j): toggleModule(i) for i # j, later loads and
\* renders, scroll events and navigation clicks leave it alone, so any subset of
\* entries can be expanded at once.
C5_PerEntryState == [][C5_Step]_vars

C5_Witness ==
    /\ pc = "wired"
    /\ Len(ModuleHtml) = 2
    /\ ModuleHtml[1].display = "block" /\ ModuleHtml[2].display = "block"
    /\ ~Untouched("thesisContent")
    /\ ~Untouched("practicalsList")
    /\ navbarScrolled /\ active # {}

C8_Step ==
    /\ NavToggleClick => navMenuActive' = ~navMenuActive
    /\ NavLinkClick => (~navMenuActive' /\ ~navToggleActive')
    /\ (navMenuActive' # navMenuActive \/ navToggleActive' # navToggleActive)
          => (NavToggleClick \/ NavLinkClick)

\* C8: navToggle and navMenu carry 'active' together; a click on the trigger
\* flips closed <-> open, a click on a navigation link leaves the menu closed,
\* and no other event changes the menu.
C8_MobileMenu ==
    /\ [](navToggleActive = navMenuActive)
    /\ [][C8_Step]_vars

C8_Witness ==
    /\ navToggleActive /\ navMenuActive
    /\ navbarScrolled
    /\ \E k \in Cards(ModuleHtml) : ModuleHtml[k].display = "block"

HandlerStep ==
    \/ NavToggleClick
    \/ NavLinkClick
    \/ \E y \in ScrollOffsets : OnScroll(y)
    \/ BackToTopClick

C10_Step ==
    /\ (pc' = "wired" /\ pc # "wired") => pc = "loaded"
    /\ HandlerStep => (pc \notin {"fetch", "json"} /\ \A s \in Sources : fetch[s] # "pending")

\* C10: the controller is wired only after loadAllData has completed, so no
\* navigation, scroll or back-to-top handler runs while a fetch is pending; and
\* if every issued fetch settles, the controller is eventually wired, whichever
\* sources fail and however they fail.  (Checked under LiveSpec.)
C10_BootstrapOrder ==
    /\ [][C10_Step]_vars
    /\ [](wired => \A s \in Sources : fetch[s] # "pending")
    /\ (pc = "fetch") ~> wired

C10_Witness ==
    /\ wired
    /\ errors > 0
    /\ ~Untouched("educationModules")
    /\ fetch["courseworksList"] = "notok"
    /\ fetch["practicalsList"] = "ok" /\ Untouched("practicalsList")

-----------------------------------------------------------------------------
(* Properties of the scroll listener, under NavSpec *)

Top(sec) == sec.offsetTop - NavOffset
\* the band [top, top + height) of the specification
InClosedOpen(sec, y) == Top(sec) <= y /\ y < Top(sec) + sec.offsetHeight
\* the band (top, top + height]
InOpenClosed(sec, y) == Top(sec) < y /\ y <= Top(sec) + sec.offsetHeight
\* two bands of either kind have no offset in common
DisjointBands ==
    \A j \in 1..Len(sections) : \A k \in 1..Len(sections) :
        (j # k) => \/ Top(sections[j]) + sections[j].offsetHeight <= Top(sections[k])
                   \/ Top(sections[k]) + sections[k].offsetHeight <= Top(sections[j])
InOneClosedOpen(y) ==
    Cardinality({k \in 1..Len(sections) : InClosedOpen(sections[k], y)}) = 1
InOneOpenClosed(y) ==
    Cardinality({k \in 1..Len(sections) : InOpenClosed(sections[k], y)}) = 1

-----------------------------------------------------------------------------
(* Properties of the counter animation, under CounterSpec *)

CounterDone == counter.text = counter.target /\ ~counter.timer /\ ~counter.observing

\* C7: for a counter that starts at 0 with a positive integer target, every newly
\* displayed value is greater than the one before, none exceeds the target, the
\* animation ends with the target displayed, and the display then stays at the
\* target, also when the element leaves and re-enters view.
C7_CounterAnimation ==
    /\ [][/\ counter.text' # counter.text => counter.text' > counter.text
          /\ counter.text' <= counter.target
          /\ CounterDone => CounterDone']_vars
    /\ counter.timer ~> CounterDone

=============================================================================
